---- MODULE Spec2Model ----
(***************************************************************************)
(* Model of the circular track game of src/main.py: the Ball class, the    *)
(* finish-line test and the event/frame loop of main().                    *)
(*                                                                         *)
(* Numbers.  The program computes in binary floating point.  The model     *)
(* keeps positions and velocities in fixed point, Scale units per pixel;   *)
(* a product that is not a whole number of units (launch scale 0.1,        *)
(* friction 0.98) is truncated toward zero.  Comparisons of distances are  *)
(* made on squared distances, which is the same comparison as the code's   *)
(* on the square roots.  Pointer positions are whole pixels, as pygame     *)
(* delivers them.                                                          *)
(***************************************************************************)
EXTENDS Integers, Sequences, FiniteSets

\* ------------------------------------------------------------------ bounds
Scale == 100           \* fixed-point units per pixel
MaxMoves == 3          \* no new drag starts once move_count reaches this
MaxLaps == 2           \* no new drag starts once laps_completed reaches this

\* pointer positions (pixels) the events are drawn from
MousePositions ==
    { <<200, 300>>,    \* on the start position: a zero-length drag
      <<200, 276>>,    \* above the start: a gentle launch downwards
      <<150, 400>>,    \* left of the lower-left track: a launch to the right
      <<0, 300>>,      \* far left: a hard launch into the inner wall
      <<400, 300>>,    \* track centre: a launch away from the centre
      <<155, 240>>,    \* from the start: a launch that stops at the outer
                       \* wall just left of the finish line
      <<373, 543>>,    \* from there: a gentle launch that comes to rest
                       \* on the finish line
      <<0, 529>>,      \* from there: a launch of 38 pixels per frame
                       \* across the finish line
      <<-50, 300>> }   \* left of the window (the button is held): from the
                       \* start, the launch velocity (25, 0)

\* --------------------------------------------------------------- constants
WIDTH == 800
HEIGHT == 600
BALL_RADIUS == 10
TRACK_INNER_RADIUS == 150
TRACK_OUTER_RADIUS == 250
FrictionPercent == 98          \* FRICTION = 0.98
LaunchDivisor == 10            \* scale = 0.1 in end_drag
StopDivisor == 10              \* the 0.1 threshold of update
FinishTolerance == 5           \* "radius + 5" in check_finish_line
Inf == 2147483647              \* float('inf')

\* ----------------------------------------------------------------- helpers
Abs(a) == IF a >= 0 THEN a ELSE -a

\* a / b rounded toward zero (b > 0)
TruncDiv(a, b) == IF a >= 0 THEN a \div b ELSE -((-a) \div b)

Clamp(lo, v, hi) == IF v < lo THEN lo ELSE IF v > hi THEN hi ELSE v

\* main(): centre of the track, in units
center_x == (WIDTH * Scale) \div 2
center_y == (HEIGHT * Scale) \div 2

\* main(): the finish line, at 90 degrees (cos = 0, sin = 1): a vertical
\* segment from the inner to the outer wall below the centre
inner_x == center_x
inner_y == center_y + TRACK_INNER_RADIUS * Scale
outer_x == center_x
outer_y == center_y + TRACK_OUTER_RADIUS * Scale

\* main(): the start position, at 180 degrees (cos = -1, sin = 0), in the
\* middle of the track
start_radius == TRACK_INNER_RADIUS + (TRACK_OUTER_RADIUS - TRACK_INNER_RADIUS) \div 2
ball_x == center_x - start_radius * Scale
ball_y == center_y

\* Ball.__init__
Ball(x, y, radius) ==
    [x |-> x, y |-> y, radius |-> radius, vx |-> 0, vy |-> 0,
     moving |-> FALSE, start_drag_x |-> 0, start_drag_y |-> 0,
     dragging |-> FALSE]

\* OutOfTrack with the inner wall forgotten
OutOfTrack_OuterOnly(nx, ny, radius) ==
    LET dx == Abs(nx - center_x)
        dy == Abs(ny - center_y)
        hi == (TRACK_OUTER_RADIUS - radius) * Scale
    IN  IF dx > hi \/ dy > hi THEN TRUE
        ELSE dx * dx + dy * dy > hi * hi

\* Ball.update, line 69 and 72: the tentative position leaves the track.
\* sqrt(q) - r < inner is q < (inner + r)^2; sqrt(q) + r > outer is
\* q > (outer - r)^2.  A coordinate further than outer - r from the centre
\* is outside for certain (and its square is not computed).
OutOfTrack(nx, ny, radius) ==
    LET dx == Abs(nx - center_x)
        dy == Abs(ny - center_y)
        lo == (TRACK_INNER_RADIUS + radius) * Scale
        hi == (TRACK_OUTER_RADIUS - radius) * Scale
    IN  IF dx > hi \/ dy > hi THEN TRUE
        ELSE \/ dx * dx + dy * dy < lo * lo
             \/ dx * dx + dy * dy > hi * hi

\* Ball.update, lines 83-84: v *= FRICTION
Friction(v) == TruncDiv(v * FrictionPercent, 100)

\* the stop threshold never met
BelowThreshold_Never(vx, vy) == FALSE

\* Ball.update, line 87: abs(vx) < 0.1 and abs(vy) < 0.1
BelowThreshold(vx, vy) ==
    /\ StopDivisor * Abs(vx) < Scale
    /\ StopDivisor * Abs(vy) < Scale

\* Update with the velocity left as it was on a wall stop
Update_KeepsVelocity(b) ==
    IF b.moving
    THEN LET next_x == b.x + b.vx
             next_y == b.y + b.vy
         IN  IF OutOfTrack(next_x, next_y, b.radius)
             THEN [b EXCEPT !.moving = FALSE]
             ELSE LET fx == Friction(b.vx)
                      fy == Friction(b.vy)
                  IN  IF BelowThreshold(fx, fy)
                      THEN [b EXCEPT !.x = next_x, !.y = next_y,
                                     !.vx = 0, !.vy = 0, !.moving = FALSE]
                      ELSE [b EXCEPT !.x = next_x, !.y = next_y,
                                     !.vx = fx, !.vy = fy]
    ELSE b

\* Update with a bounce (the velocity reversed) in place of the hard stop
Update_Bounce(b) ==
    IF b.moving
    THEN LET next_x == b.x + b.vx
             next_y == b.y + b.vy
         IN  IF OutOfTrack(next_x, next_y, b.radius)
             THEN [b EXCEPT !.vx = Friction(-b.vx), !.vy = Friction(-b.vy),
                            !.moving = ~BelowThreshold(Friction(b.vx),
                                                       Friction(b.vy))]
             ELSE LET fx == Friction(b.vx)
                      fy == Friction(b.vy)
                  IN  IF BelowThreshold(fx, fy)
                      THEN [b EXCEPT !.x = next_x, !.y = next_y,
                                     !.vx = 0, !.vy = 0, !.moving = FALSE]
                      ELSE [b EXCEPT !.x = next_x, !.y = next_y,
                                     !.vx = fx, !.vy = fy]
    ELSE b

\* Update with the friction applied before the move instead of after it
Update_FrictionFirst(b) ==
    IF b.moving
    THEN LET fx == Friction(b.vx)
             fy == Friction(b.vy)
             next_x == b.x + fx
             next_y == b.y + fy
         IN  IF OutOfTrack(next_x, next_y, b.radius)
             THEN [b EXCEPT !.vx = 0, !.vy = 0, !.moving = FALSE]
             ELSE IF BelowThreshold(fx, fy)
                  THEN [b EXCEPT !.x = next_x, !.y = next_y,
                                 !.vx = 0, !.vy = 0, !.moving = FALSE]
                  ELSE [b EXCEPT !.x = next_x, !.y = next_y,
                                 !.vx = fx, !.vy = fy]
    ELSE b

\* Ball.update: the ball after one step
Update(b) ==
    IF b.moving
    THEN LET next_x == b.x + b.vx
             next_y == b.y + b.vy
         IN  IF OutOfTrack(next_x, next_y, b.radius)
             THEN [b EXCEPT !.vx = 0, !.vy = 0, !.moving = FALSE]
             ELSE LET fx == Friction(b.vx)
                      fy == Friction(b.vy)
                  IN  IF BelowThreshold(fx, fy)
                      THEN [b EXCEPT !.x = next_x, !.y = next_y,
                                     !.vx = 0, !.vy = 0, !.moving = FALSE]
                      ELSE [b EXCEPT !.x = next_x, !.y = next_y,
                                     !.vx = fx, !.vy = fy]
    ELSE b

\* which branch of Ball.update a step of b takes
UpdateBranch(b) ==
    IF ~b.moving THEN "rest"
    ELSE IF OutOfTrack(b.x + b.vx, b.y + b.vy, b.radius) THEN "wall"
    ELSE IF BelowThreshold(Friction(b.vx), Friction(b.vy)) THEN "friction"
    ELSE "moved"

\* Ball.start_drag
start_drag(b, x, y) ==
    IF ~b.moving
    THEN [b EXCEPT !.dragging = TRUE, !.start_drag_x = x, !.start_drag_y = y]
    ELSE b

\* end_drag launching whether or not a drag is in progress
end_drag_Always(b) ==
    LET dx == b.x - b.start_drag_x * Scale
        dy == b.y - b.start_drag_y * Scale
    IN  [b EXCEPT !.dragging = FALSE,
                  !.vx = TruncDiv(dx, LaunchDivisor),
                  !.vy = TruncDiv(dy, LaunchDivisor),
                  !.moving = TRUE]

\* end_drag launching nothing on a zero-length drag
end_drag_IgnoresZeroDrag(b) ==
    IF b.dragging
    THEN LET dx == b.x - b.start_drag_x * Scale
             dy == b.y - b.start_drag_y * Scale
         IN  [b EXCEPT !.dragging = FALSE,
                       !.vx = TruncDiv(dx, LaunchDivisor),
                       !.vy = TruncDiv(dy, LaunchDivisor),
                       !.moving = (dx # 0 \/ dy # 0)]
    ELSE b

\* end_drag with the dragging flag left set
end_drag_KeepsDragging(b) ==
    IF b.dragging
    THEN LET dx == b.x - b.start_drag_x * Scale
             dy == b.y - b.start_drag_y * Scale
         IN  [b EXCEPT !.vx = TruncDiv(dx, LaunchDivisor),
                       !.vy = TruncDiv(dy, LaunchDivisor),
                       !.moving = TRUE]
    ELSE b

\* Ball.end_drag: the ball afterwards (the return value is b.dragging)
end_drag(b) ==
    IF b.dragging
    THEN LET dx == b.x - b.start_drag_x * Scale
             dy == b.y - b.start_drag_y * Scale
         IN  [b EXCEPT !.dragging = FALSE,
                       !.vx = TruncDiv(dx, LaunchDivisor),
                       !.vy = TruncDiv(dy, LaunchDivisor),
                       !.moving = TRUE]
    ELSE b

\* check_finish_line: the finish segment is vertical (x1 = x2), so the
\* projection of the ball on it is (x1, y clamped to [y1, y2]); the ball is
\* on the line when its distance to the projection is below radius + 5.
\* A coordinate difference of radius + 5 or more decides the test without
\* the squares.
check_finish_line(b, check_moving) ==
    LET proj_x == inner_x
        proj_y == Clamp(inner_y, b.y, outer_y)
        ex == Abs(b.x - proj_x)
        ey == Abs(b.y - proj_y)
        tol == (b.radius + FinishTolerance) * Scale
        close == IF ex >= tol \/ ey >= tol THEN FALSE
                 ELSE ex * ex + ey * ey < tol * tol
    IN  IF outer_y = inner_y /\ outer_x = inner_x THEN FALSE
        ELSE IF ~check_moving THEN close
        ELSE close /\ ~b.moving

\* ------------------------------------------------------------------- state
VARIABLES
    ball,                \* the Ball object
    best_score,          \* main(): best_score
    laps_completed,      \* main(): laps_completed
    previous_lap_score,  \* main(): previous_lap_score
    crossed_finish_line, \* main(): crossed_finish_line
    move_count,          \* main(): move_count
    game_over,           \* main(): game_over
    running,             \* main(): running
    pc,                  \* "loop" inside the while loop, "exit" after it
    last,                \* history: what the last step was
    lapScores,           \* history: move_count at each lap completion
    overlapLaps,         \* history: laps counted in the current run of
                         \* frames whose stepped ball is on the finish line
    launches,            \* history: pointer-ups that found the ball
                         \* dragging, since the ball object was created
    dragDiscarded        \* history: the reset key replaced a dragging ball
                         \* and no pointer-down has come since

vars == <<ball, best_score, laps_completed, previous_lap_score,
          crossed_finish_line, move_count, game_over, running, pc,
          last, lapScores, overlapLaps, launches, dragDiscarded>>

score == <<best_score, laps_completed, previous_lap_score>>
hist == <<lapScores, overlapLaps>>

Init ==
    /\ ball = Ball(ball_x, ball_y, BALL_RADIUS)
    /\ best_score = Inf
    /\ laps_completed = 0
    /\ previous_lap_score = 0
    /\ crossed_finish_line = FALSE
    /\ move_count = 0
    /\ game_over = FALSE
    /\ running = TRUE
    /\ pc = "loop"
    /\ last = "init"
    /\ lapScores = <<>>
    /\ overlapLaps = 0
    /\ launches = 0
    /\ dragDiscarded = FALSE

\* ------------------------------------------------------------------ events
\* QUIT: the loop ends after the current frame
Quit ==
    /\ pc = "loop"
    /\ running
    /\ running' = FALSE
    /\ last' = "quit"
    /\ UNCHANGED <<ball, score, crossed_finish_line, move_count, game_over,
                   pc, hist, launches, dragDiscarded>>

\* MOUSEBUTTONDOWN at pixel p
MouseButtonDown(p) ==
    /\ pc = "loop"
    /\ move_count < MaxMoves
    /\ laps_completed < MaxLaps
    /\ ball' = IF ~game_over /\ ~ball.moving
               THEN start_drag(ball, p[1], p[2])
               ELSE ball
    /\ last' = "down"
    /\ dragDiscarded' = FALSE
    /\ UNCHANGED <<score, crossed_finish_line, move_count, game_over,
                   running, pc, hist, launches>>

\* MOUSEMOTION to pixel p
MouseMotion(p) ==
    /\ pc = "loop"
    /\ ball' = IF ball.dragging
               THEN [ball EXCEPT !.start_drag_x = p[1], !.start_drag_y = p[2]]
               ELSE ball
    /\ last' = "motion"
    /\ UNCHANGED <<score, crossed_finish_line, move_count, game_over,
                   running, pc, hist, launches, dragDiscarded>>

\* MOUSEBUTTONUP
MouseButtonUp ==
    /\ pc = "loop"
    /\ ball' = end_drag(ball)
    /\ move_count' = IF ball.dragging /\ ~game_over
                     THEN move_count + 1
                     ELSE move_count
    /\ last' = "up"
    /\ launches' = IF ball.dragging THEN launches + 1 ELSE launches
    /\ UNCHANGED <<score, crossed_finish_line, game_over, running, pc, hist,
                   dragDiscarded>>

\* the reset key leaving move_count as it was
KeyDownR_KeepsMoveCount ==
    /\ pc = "loop"
    /\ ball' = Ball(ball_x, ball_y, BALL_RADIUS)
    /\ move_count' = move_count
    /\ game_over' = FALSE
    /\ last' = "reset"
    /\ launches' = 0
    /\ dragDiscarded' = (dragDiscarded \/ ball.dragging)
    /\ UNCHANGED <<score, crossed_finish_line, running, pc, hist>>

\* the reset key moving the ball back to the start without ending its drag
KeyDownR_KeepsDrag ==
    /\ pc = "loop"
    /\ ball' = [Ball(ball_x, ball_y, BALL_RADIUS) EXCEPT
                  !.dragging = ball.dragging,
                  !.start_drag_x = ball.start_drag_x,
                  !.start_drag_y = ball.start_drag_y]
    /\ move_count' = 0
    /\ game_over' = FALSE
    /\ last' = "reset"
    /\ launches' = 0
    /\ dragDiscarded' = (dragDiscarded \/ ball.dragging)
    /\ UNCHANGED <<score, crossed_finish_line, running, pc, hist>>

\* the reset key clearing the lap statistics as well
KeyDownR_ClearsScores ==
    /\ pc = "loop"
    /\ ball' = Ball(ball_x, ball_y, BALL_RADIUS)
    /\ move_count' = 0
    /\ game_over' = FALSE
    /\ laps_completed' = 0
    /\ best_score' = Inf
    /\ previous_lap_score' = 0
    /\ last' = "reset"
    /\ launches' = 0
    /\ dragDiscarded' = (dragDiscarded \/ ball.dragging)
    /\ UNCHANGED <<crossed_finish_line, running, pc, hist>>

\* KEYDOWN with key R
KeyDownR ==
    /\ pc = "loop"
    /\ ball' = Ball(ball_x, ball_y, BALL_RADIUS)
    /\ move_count' = 0
    /\ game_over' = FALSE
    /\ last' = "reset"
    /\ launches' = 0
    /\ dragDiscarded' = (dragDiscarded \/ ball.dragging)
    /\ UNCHANGED <<score, crossed_finish_line, running, pc, hist>>

\* ------------------------------------------------------------------- frame
\* the lap check resetting move_count but keeping the ball in play
LapCheck_KeepsBall(b) ==
    IF b.moving /\ check_finish_line(b, FALSE)
    THEN IF ~crossed_finish_line
         THEN /\ crossed_finish_line' = TRUE
              /\ laps_completed' = laps_completed + 1
              /\ previous_lap_score' = move_count
              /\ best_score' = IF move_count < best_score
                               THEN move_count ELSE best_score
              /\ ball' = b
              /\ move_count' = 0
         ELSE /\ ball' = b
              /\ UNCHANGED <<score, crossed_finish_line, move_count>>
    ELSE /\ ball' = b
         /\ crossed_finish_line' = IF ~check_finish_line(b, FALSE)
                                   THEN FALSE ELSE crossed_finish_line
         /\ UNCHANGED <<score, move_count>>

\* the lap check never clearing crossed_finish_line
LapCheck_NeverClears(b) ==
    IF b.moving /\ check_finish_line(b, FALSE)
    THEN IF ~crossed_finish_line
         THEN /\ crossed_finish_line' = TRUE
              /\ laps_completed' = laps_completed + 1
              /\ previous_lap_score' = move_count
              /\ best_score' = IF move_count < best_score
                               THEN move_count ELSE best_score
              /\ ball' = Ball(ball_x, ball_y, BALL_RADIUS)
              /\ move_count' = 0
         ELSE /\ ball' = b
              /\ UNCHANGED <<score, crossed_finish_line, move_count>>
    ELSE /\ ball' = b
         /\ UNCHANGED <<score, crossed_finish_line, move_count>>

\* the lap check overwriting best_score at every lap
LapCheck_BestAlways(b) ==
    IF b.moving /\ check_finish_line(b, FALSE)
    THEN IF ~crossed_finish_line
         THEN /\ crossed_finish_line' = TRUE
              /\ laps_completed' = laps_completed + 1
              /\ previous_lap_score' = move_count
              /\ best_score' = move_count
              /\ ball' = Ball(ball_x, ball_y, BALL_RADIUS)
              /\ move_count' = 0
         ELSE /\ ball' = b
              /\ UNCHANGED <<score, crossed_finish_line, move_count>>
    ELSE /\ ball' = b
         /\ crossed_finish_line' = IF ~check_finish_line(b, FALSE)
                                   THEN FALSE ELSE crossed_finish_line
         /\ UNCHANGED <<score, move_count>>

\* the lap check recording previous_lap_score after move_count was reset
LapCheck_PrevAfterReset(b) ==
    IF b.moving /\ check_finish_line(b, FALSE)
    THEN IF ~crossed_finish_line
         THEN /\ crossed_finish_line' = TRUE
              /\ laps_completed' = laps_completed + 1
              /\ previous_lap_score' = 0
              /\ best_score' = IF move_count < best_score
                               THEN move_count ELSE best_score
              /\ ball' = Ball(ball_x, ball_y, BALL_RADIUS)
              /\ move_count' = 0
         ELSE /\ ball' = b
              /\ UNCHANGED <<score, crossed_finish_line, move_count>>
    ELSE /\ ball' = b
         /\ crossed_finish_line' = IF ~check_finish_line(b, FALSE)
                                   THEN FALSE ELSE crossed_finish_line
         /\ UNCHANGED <<score, move_count>>

\* the lap check leaving move_count as it was at a lap
LapCheck_KeepsMoveCount(b) ==
    IF b.moving /\ check_finish_line(b, FALSE)
    THEN IF ~crossed_finish_line
         THEN /\ crossed_finish_line' = TRUE
              /\ laps_completed' = laps_completed + 1
              /\ previous_lap_score' = move_count
              /\ best_score' = IF move_count < best_score
                               THEN move_count ELSE best_score
              /\ ball' = Ball(ball_x, ball_y, BALL_RADIUS)
              /\ move_count' = move_count
         ELSE /\ ball' = b
              /\ UNCHANGED <<score, crossed_finish_line, move_count>>
    ELSE /\ ball' = b
         /\ crossed_finish_line' = IF ~check_finish_line(b, FALSE)
                                   THEN FALSE ELSE crossed_finish_line
         /\ UNCHANGED <<score, move_count>>

\* the lap check without edge detection: a lap is counted in every frame in
\* which the moving ball is on the line, and the ball plays on
LapCheck_NoEdge(b) ==
    IF b.moving /\ check_finish_line(b, FALSE)
    THEN /\ crossed_finish_line' = TRUE
         /\ laps_completed' = laps_completed + 1
         /\ previous_lap_score' = move_count
         /\ best_score' = IF move_count < best_score
                          THEN move_count ELSE best_score
         /\ ball' = b
         /\ move_count' = move_count
    ELSE /\ ball' = b
         /\ crossed_finish_line' = IF ~check_finish_line(b, FALSE)
                                   THEN FALSE ELSE crossed_finish_line
         /\ UNCHANGED <<score, move_count>>

\* main(), lines 303-320: the lap check on the stepped ball b
LapCheck(b) ==
    IF b.moving /\ check_finish_line(b, FALSE)
    THEN IF ~crossed_finish_line
         THEN /\ crossed_finish_line' = TRUE
              /\ laps_completed' = laps_completed + 1
              /\ previous_lap_score' = move_count
              /\ best_score' = IF move_count < best_score
                               THEN move_count ELSE best_score
              /\ ball' = Ball(ball_x, ball_y, BALL_RADIUS)
              /\ move_count' = 0
         ELSE /\ ball' = b
              /\ UNCHANGED <<score, crossed_finish_line, move_count>>
    ELSE /\ ball' = b
         /\ crossed_finish_line' = IF ~check_finish_line(b, FALSE)
                                   THEN FALSE ELSE crossed_finish_line
         /\ UNCHANGED <<score, move_count>>

\* main(), lines 298-320 and the loop test: one frame after its events
Frame ==
    /\ pc = "loop"
    /\ IF ~game_over
       THEN LET b == Update(ball)
            IN  /\ LapCheck(b)
                /\ last' = IF laps_completed' # laps_completed
                           THEN "lap" ELSE UpdateBranch(ball)
                /\ lapScores' = IF laps_completed' # laps_completed
                                THEN Append(lapScores, move_count)
                                ELSE lapScores
                /\ overlapLaps' =
                     IF check_finish_line(b, FALSE)
                     THEN overlapLaps +
                          (IF laps_completed' # laps_completed THEN 1 ELSE 0)
                     ELSE 0
                /\ launches' = IF laps_completed' # laps_completed
                               THEN 0 ELSE launches
       ELSE /\ last' = "over"
            /\ UNCHANGED <<ball, score, crossed_finish_line, move_count, hist,
                           launches>>
    /\ pc' = IF running THEN "loop" ELSE "exit"
    /\ UNCHANGED <<game_over, running, dragDiscarded>>

Next ==
    \/ Quit
    \/ \E p \in MousePositions : MouseButtonDown(p)
    \/ \E p \in MousePositions : MouseMotion(p)
    \/ MouseButtonUp
    \/ KeyDownR
    \/ Frame

Spec == Init /\ [][Next]_vars

\* the loop with the pointer positions of three launches (none, gentle,
\* hard), and a frame in every iteration of the while loop
FlightPositions == { <<200, 300>>, <<200, 276>>, <<0, 300>> }

FlightNext ==
    \/ Quit
    \/ \E p \in FlightPositions : MouseButtonDown(p)
    \/ \E p \in FlightPositions : MouseMotion(p)
    \/ MouseButtonUp
    \/ KeyDownR
    \/ Frame

FairSpec == Init /\ [][FlightNext]_vars /\ WF_vars(Frame)

\* ------------------------------------------------- vocabulary of the claims
\* steps of the frame action, by the branch the ball's update took
FrameKinds == {"rest", "wall", "friction", "moved", "lap"}

FreshBall ==
    [x |-> ball_x, y |-> ball_y, radius |-> BALL_RADIUS, vx |-> 0, vy |-> 0,
     moving |-> FALSE, start_drag_x |-> 0, start_drag_y |-> 0,
     dragging |-> FALSE]

\* squared distance of (x, y) to the track centre, capped: a point with a
\* coordinate more than the outer radius away counts as on the outer circle
\* plus one unit
CentreDist2(x, y) ==
    LET dx == Abs(x - center_x)
        dy == Abs(y - center_y)
        r == TRACK_OUTER_RADIUS * Scale
    IN  IF dx > r \/ dy > r THEN r * r + 1 ELSE dx * dx + dy * dy

\* the ball at (x, y) lies fully inside the annulus:
\* d - ballRadius >= inner and d + ballRadius <= outer
FitsAnnulus(x, y) ==
    /\ CentreDist2(x, y) >= (TRACK_INNER_RADIUS + BALL_RADIUS) * Scale
                            * (TRACK_INNER_RADIUS + BALL_RADIUS) * Scale
    /\ CentreDist2(x, y) <= (TRACK_OUTER_RADIUS - BALL_RADIUS) * Scale
                            * (TRACK_OUTER_RADIUS - BALL_RADIUS) * Scale

\* innerRadius + ballRadius < d < outerRadius - ballRadius
StrictlyInside(x, y) ==
    /\ CentreDist2(x, y) > (TRACK_INNER_RADIUS + BALL_RADIUS) * Scale
                           * (TRACK_INNER_RADIUS + BALL_RADIUS) * Scale
    /\ CentreDist2(x, y) < (TRACK_OUTER_RADIUS - BALL_RADIUS) * Scale
                           * (TRACK_OUTER_RADIUS - BALL_RADIUS) * Scale

\* (x, y) is within the finish-line tolerance: closer than ballRadius + 5 to
\* the segment that runs from the inner to the outer wall straight below the
\* track centre
WithinTolerance(x, y) ==
    LET top == center_y + TRACK_INNER_RADIUS * Scale
        bottom == center_y + TRACK_OUTER_RADIUS * Scale
        tol == (BALL_RADIUS + FinishTolerance) * Scale
        ex == Abs(x - center_x)
        ny == IF y < top THEN top ELSE IF y > bottom THEN bottom ELSE y
        ey == Abs(y - ny)
    IN  /\ ex < tol
        /\ ey < tol
        /\ ex * ex + ey * ey < tol * tol

RECURSIVE MinOf(_)
MinOf(s) ==
    IF Len(s) = 1 THEN s[1]
    ELSE LET m == MinOf(Tail(s)) IN IF s[1] < m THEN s[1] ELSE m

\* ------------------------------------------------------------------ claims
\* C1: the ball's dragging and moving flags are never both true, and a
\* pointer-down while the ball is moving changes neither dragging nor the
\* drag anchor.
C1_DragMoveExclusive ==
    /\ [](~(ball.dragging /\ ball.moving))
    /\ [][(last' = "down" /\ ball.moving) =>
            /\ ball'.dragging = ball.dragging
            /\ ball'.start_drag_x = ball.start_drag_x
            /\ ball'.start_drag_y = ball.start_drag_y]_vars

C1_Witness ==
    /\ last = "down"
    /\ ball.moving
    /\ ~ball.dragging
    /\ move_count = 1

\* C2: whenever the moving flag is false the velocity is (0,0): for a fresh
\* ball and after a wall stop, a friction stop, a lap replacement and a
\* manual reset (at the end of every frame, and between the events too).
C2_RestHasZeroVelocity ==
    ~ball.moving => (ball.vx = 0 /\ ball.vy = 0)

C2_Witness ==
    /\ last = "friction"
    /\ ~ball.moving
    /\ ball.vx = 0 /\ ball.vy = 0
    /\ ball.y > ball_y + 50 * Scale

\* C3: in every reachable state the ball lies fully inside the annulus.
C3_BallInsideAnnulus ==
    FitsAnnulus(ball.x, ball.y)

C3_Witness ==
    /\ last = "moved"
    /\ ball.moving
    /\ FitsAnnulus(ball.x, ball.y)
    /\ ball.x > 350 * Scale

\* C4: a step of a moving ball whose tentative next position does not fit
\* the annulus leaves the position unchanged, zeroes the velocity and clears
\* moving.
C4_WallStop ==
    [][(last' \in FrameKinds /\ ball.moving
          /\ ~FitsAnnulus(ball.x + ball.vx, ball.y + ball.vy)) =>
         /\ ball'.x = ball.x
         /\ ball'.y = ball.y
         /\ ball'.vx = 0
         /\ ball'.vy = 0
         /\ ~ball'.moving]_vars

C4_Witness ==
    /\ last = "wall"
    /\ ~ball.moving
    /\ ball.x # ball_x

\* C5 as stated: a step of any moving ball whose current position is
\* strictly inside the annulus moves it by exactly the velocity vector and
\* leaves moving true, unless friction brings both velocity components
\* below the stop threshold in that step.
C5_AsStated ==
    [][(last' \in FrameKinds /\ ball.moving
          /\ StrictlyInside(ball.x, ball.y)) =>
         LET b == Update(ball)
         IN  /\ b.x = ball.x + ball.vx
             /\ b.y = ball.y + ball.vy
             /\ \/ b.moving
                \/ /\ 10 * Abs(Friction(ball.vx)) < Scale
                   /\ 10 * Abs(Friction(ball.vy)) < Scale]_vars

\* C5, amended: a step of a moving ball whose tentative next position fits
\* the annulus moves it by exactly the velocity vector; moving stays true
\* and the velocity is the decayed one, unless the decayed components are
\* both below the stop threshold, and then the ball rests with velocity
\* (0,0).  The ball of the next state is the stepped ball unless the frame
\* registers a lap.
C5_StepMovesByVelocity ==
    [][(last' \in FrameKinds /\ ball.moving
          /\ FitsAnnulus(ball.x + ball.vx, ball.y + ball.vy)) =>
         LET b == Update(ball)
             slow == /\ 10 * Abs(Friction(ball.vx)) < Scale
                     /\ 10 * Abs(Friction(ball.vy)) < Scale
         IN  /\ b.x = ball.x + ball.vx
             /\ b.y = ball.y + ball.vy
             /\ b.moving = ~slow
             /\ slow => (b.vx = 0 /\ b.vy = 0)
             /\ ~slow => (b.vx = Friction(ball.vx) /\ b.vy = Friction(ball.vy))
             /\ last' # "lap" => ball' = b]_vars

C5_Witness ==
    /\ last = "moved"
    /\ ball.moving
    /\ ball.vx > 0 /\ ball.vy > 0
    /\ move_count = 2

\* C6: a frame in which the stepped ball is moving and within the finish
\* tolerance while crossed_finish_line is false sets crossed_finish_line,
\* adds 1 to laps_completed, records move_count as previous_lap_score and,
\* if smaller than best_score (or none recorded), as best_score, replaces
\* the ball by a fresh one and zeroes move_count; every other frame leaves
\* laps_completed, best_score and previous_lap_score unchanged.
C6_LapCompletion ==
    [][last' \in FrameKinds =>
         LET b == Update(ball)
         IN  IF b.moving /\ WithinTolerance(b.x, b.y) /\ ~crossed_finish_line
             THEN /\ crossed_finish_line'
                  /\ laps_completed' = laps_completed + 1
                  /\ previous_lap_score' = move_count
                  /\ best_score' = IF best_score = Inf \/ move_count < best_score
                                   THEN move_count ELSE best_score
                  /\ ball' = FreshBall
                  /\ move_count' = 0
             ELSE UNCHANGED score]_vars

C6_Witness ==
    /\ last = "lap"
    /\ laps_completed = 2
    /\ previous_lap_score = 3
    /\ best_score = 2
    /\ ball = FreshBall
    /\ move_count = 0

\* C7: best_score is unset exactly when no lap was completed, and otherwise
\* is the minimum of the move counts recorded at the lap completions so far,
\* and previous_lap_score is the move count of the most recent one; hence
\* best_score <= previous_lap_score once a lap exists.
C7_BestIsMinimum ==
    /\ Len(lapScores) = laps_completed
    /\ (best_score = Inf) <=> (laps_completed = 0)
    /\ laps_completed > 0 =>
         /\ best_score = MinOf(lapScores)
         /\ previous_lap_score = lapScores[Len(lapScores)]
         /\ best_score <= previous_lap_score

C7_Witness ==
    /\ lapScores = <<3, 2>>
    /\ best_score = 2
    /\ previous_lap_score = 2
    /\ last = "reset"

\* C8: the reset key replaces the ball by a fresh ball at the start
\* position, zeroes move_count, clears game_over and leaves laps_completed,
\* best_score and previous_lap_score unchanged.
C8_ResetKeepsScores ==
    [][last' = "reset" =>
         /\ ball' = FreshBall
         /\ move_count' = 0
         /\ game_over' = FALSE
         /\ UNCHANGED score]_vars

C8_Witness ==
    /\ last = "reset"
    /\ laps_completed = 1
    /\ best_score = 2
    /\ previous_lap_score = 2
    /\ ball = FreshBall
    /\ move_count = 0

\* C9 as stated: whenever the ball is replaced (lap completion, manual
\* reset), immediately afterwards move_count is 0 and crossed_finish_line is
\* false.
C9_AsStated ==
    [][last' \in {"lap", "reset"} =>
         /\ move_count' = 0
         /\ ~crossed_finish_line']_vars

\* C9, amended: whenever the ball is replaced, move_count is 0 immediately
\* afterwards; crossed_finish_line is true immediately after a lap
\* completion and is left as it was by a manual reset.
C9_ReplacementResetsMoveCount ==
    [][/\ last' \in {"lap", "reset"} => (ball' = FreshBall /\ move_count' = 0)
       /\ last' = "lap" => crossed_finish_line'
       /\ last' = "reset" => crossed_finish_line' = crossed_finish_line]_vars

C9_Witness ==
    /\ last = "reset"
    /\ crossed_finish_line
    /\ move_count = 0
    /\ laps_completed = 1

\* C10: in a run of consecutive frames in which the stepped ball stays
\* within the finish tolerance laps_completed increases at most once, and it
\* increases (by one) only in a frame after whose step the ball is moving
\* and within the tolerance.
C10_LapOncePerOverlap ==
    /\ [](overlapLaps <= 1)
    /\ [][laps_completed' # laps_completed =>
            /\ laps_completed' = laps_completed + 1
            /\ last' = "lap"
            /\ Update(ball).moving
            /\ WithinTolerance(Update(ball).x, Update(ball).y)]_vars

C10_Witness ==
    /\ overlapLaps = 1
    /\ last = "lap"
    /\ laps_completed = 2

\* C11: a pointer-up while the ball is not dragging launches nothing and
\* changes nothing: the ball (position, velocity, moving, dragging, drag
\* anchor) and move_count keep their values.
C11_UpWithoutDragIsNoOp ==
    [][(last' = "up" /\ ~ball.dragging) =>
         /\ ball' = ball
         /\ move_count' = move_count]_vars

C11_Witness ==
    /\ last = "up"
    /\ ball.moving
    /\ ~ball.dragging
    /\ move_count = 1
    /\ ball.x # ball_x

\* C12: a pointer-up on a dragging ball sets moving, clears dragging and
\* adds 1 to move_count whatever the drag distance; after a zero-length drag
\* the velocity is (0,0), and the step of a moving ball with velocity (0,0)
\* leaves the position unchanged and clears moving.
C12_EveryDragLaunches ==
    /\ [][(last' = "up" /\ ball.dragging) =>
            /\ ball'.moving
            /\ ~ball'.dragging
            /\ move_count' = move_count + 1
            /\ (ball.start_drag_x * Scale = ball.x
                  /\ ball.start_drag_y * Scale = ball.y)
               => (ball'.vx = 0 /\ ball'.vy = 0)]_vars
    /\ [][(last' \in FrameKinds /\ ball.moving
             /\ ball.vx = 0 /\ ball.vy = 0) =>
            /\ ball'.x = ball.x
            /\ ball'.y = ball.y
            /\ ~ball'.moving
            /\ move_count' = move_count]_vars

C12_Witness ==
    /\ last = "friction"
    /\ ~ball.moving
    /\ ball.x = ball_x /\ ball.y = ball_y
    /\ ball.start_drag_x * Scale = ball_x
    /\ ball.start_drag_y * Scale = ball_y
    /\ move_count = 1

\* C13: move_count equals the number of launches since the current ball
\* was created; it changes only by +1 on a launch and to 0 on a lap
\* completion or manual reset.
C13_MoveCountIsLaunches ==
    /\ [](move_count = launches)
    /\ [][move_count' # move_count =>
            \/ /\ last' = "up"
               /\ ball.dragging
               /\ move_count' = move_count + 1
            \/ /\ last' \in {"lap", "reset"}
               /\ ball' = FreshBall
               /\ move_count' = 0]_vars

C13_Witness ==
    /\ move_count = 2
    /\ launches = 2
    /\ laps_completed = 1
    /\ ball.moving

\* the ball in flight after a single launch from the start position with
\* velocity (25,0): the anchor is 250 pixels left of the start
InScenario ==
    /\ ball.moving
    /\ move_count = 1
    /\ launches = 1
    /\ ball.start_drag_x * Scale = ball_x - 250 * Scale
    /\ ball.start_drag_y * Scale = ball_y

\* C14 as stated: after the launch with velocity (25,0) from the start,
\* every step moves the ball rightward by its velocity until the ball rests
\* by friction decay (never by a wall stop), and no lap is registered.
C14_AsStated ==
    [][(InScenario /\ last' \in FrameKinds) =>
         /\ last' \in {"moved", "friction"}
         /\ ball'.x = ball.x + ball.vx
         /\ ball'.x > ball.x
         /\ laps_completed' = laps_completed]_vars

\* C14, amended: the launch with velocity (25,0) from the start sets
\* move_count to 1; the first step moves the ball to (225,300) and decays
\* the velocity; the second step is a wall stop (its tentative position is
\* too close to the inner wall): the ball rests at (225,300) with velocity
\* (0,0), and no lap is registered.
C14_ScenarioEndsAtInnerWall ==
    /\ [](InScenario => (ball.y = ball_y
                           /\ ball.x \in {ball_x, ball_x + 25 * Scale}))
    /\ [][(last' = "up" /\ ball.dragging /\ move_count = 0
             /\ ball.x = ball_x /\ ball.y = ball_y
             /\ ball.start_drag_x * Scale = ball_x - 250 * Scale
             /\ ball.start_drag_y * Scale = ball_y) =>
            /\ ball'.vx = 25 * Scale
            /\ ball'.vy = 0
            /\ move_count' = 1]_vars
    /\ [][(InScenario /\ last' \in FrameKinds) =>
            /\ laps_completed' = laps_completed
            /\ move_count' = 1
            /\ IF ball.x = ball_x
               THEN /\ last' = "moved"
                    /\ ball'.x = ball_x + 25 * Scale
                    /\ ball'.y = ball_y
                    /\ ball'.moving
                    /\ ball'.vx > 0 /\ ball'.vx < 25 * Scale
                    /\ ball'.vy = 0
               ELSE /\ last' = "wall"
                    /\ ball'.x = ball.x
                    /\ ball'.y = ball.y
                    /\ ball'.vx = 0 /\ ball'.vy = 0
                    /\ ~ball'.moving]_vars

C14_Witness ==
    /\ last = "wall"
    /\ ~ball.moving
    /\ ball.x = ball_x + 25 * Scale
    /\ ball.y = ball_y
    /\ ball.start_drag_x = -50
    /\ move_count = 1
    /\ laps_completed = 0

\* C15: a reset key during a drag discards the drag: afterwards the ball is
\* not dragging, and until the next pointer-down a pointer-move changes
\* nothing and a pointer-up launches nothing and leaves move_count.
C15_ResetDiscardsDrag ==
    /\ [](dragDiscarded => ~ball.dragging)
    /\ [][last' = "reset" => ~ball'.dragging]_vars
    /\ [][(dragDiscarded /\ last' = "motion") => ball' = ball]_vars
    /\ [][(dragDiscarded /\ last' = "up") =>
            /\ ball' = ball
            /\ move_count' = move_count]_vars

C15_Witness ==
    /\ dragDiscarded
    /\ last = "up"
    /\ ball = FreshBall
    /\ move_count = 0

\* the step from ball b0 to ball b1 carries the ball from one side of the
\* finish segment to the other, between the inner and the outer wall
CrossesFinish(b0, b1) ==
    /\ (b0.x - center_x) * (b1.x - center_x) < 0
    /\ b0.y >= center_y + TRACK_INNER_RADIUS * Scale
    /\ b0.y <= center_y + TRACK_OUTER_RADIUS * Scale
    /\ b1.y >= center_y + TRACK_INNER_RADIUS * Scale
    /\ b1.y <= center_y + TRACK_OUTER_RADIUS * Scale

\* C16: whenever a step carries a moving ball across the finish segment and
\* the ball is still moving after the step, a lap is registered in that
\* frame.
C16_CrossingCountsLap ==
    [][(last' \in FrameKinds /\ ball.moving /\ Update(ball).moving
          /\ CrossesFinish(ball, Update(ball))) =>
         laps_completed' = laps_completed + 1]_vars

\* C17: every flight ends: with a frame in every loop iteration, a moving
\* ball eventually is not moving (or the loop has been left).
C17_FlightEnds ==
    [](ball.moving => <>(~ball.moving \/ pc = "exit"))

C17_Witness ==
    /\ last = "friction"
    /\ ~ball.moving
    /\ move_count = 1
    /\ ball.x = ball_x
    /\ ball.y > ball_y + 50 * Scale

\* C18: a moving ball has move_count >= 1, and every lap is recorded with a
\* score of at least 1: once laps_completed > 0, previous_lap_score >= 1 and
\* best_score >= 1.
C18_NoLapWithoutMove ==
    /\ ball.moving => move_count >= 1
    /\ \A i \in 1..Len(lapScores) : lapScores[i] >= 1
    /\ laps_completed > 0 => (previous_lap_score >= 1 /\ best_score >= 1)

C18_Witness ==
    /\ laps_completed = 1
    /\ previous_lap_score = 2
    /\ ball.moving
    /\ move_count = 1
    /\ last = "moved"

====
